---- MODULE Spec2Model ----
(***************************************************************************)
(* Model of src/util/Authentication.js: the Authentication class, its two *)
(* tables (users, sessions) reached through knex, and the calls register, *)
(* login, verifyToken, logout, userExists, getUserIdFromSessionId and     *)
(* express_middleware.                                                    *)
(*                                                                         *)
(* Strings that the code takes apart (token strings, headers, session ids,*)
(* secrets) are sequences of one-character strings.  Usernames are opaque *)
(* and are TLA+ strings; "" is the missing argument.                      *)
(*                                                                         *)
(* JavaScript runs one handler at a time and switches only at an await.   *)
(* Every await of these methods that touches shared state is a store      *)
(* access, so a step of the model is one store access together with the   *)
(* synchronous code (and the bcrypt work, which touches no shared state)  *)
(* before it up to the previous store access, and, for the last access of *)
(* a call, the code after it up to the return.                            *)
(***************************************************************************)
EXTENDS Naturals, Sequences, FiniteSets, TLC

VARIABLES knex, tokenHashing, storeFaulty, sidsRepeat, users, sessions, call,
          resp, issued, revoked

vars ==
    <<knex, tokenHashing, storeFaulty, sidsRepeat, users, sessions, call, resp,
      issued, revoked>>

(***************************************************************************)
(* Bounds of the model.                                                    *)
(***************************************************************************)
\* rows the users table can hold; an insert into a full table fails
MaxUsers == 2
\* a token string handed to verifyToken has at most this many segments
MaxSegs == 3

\* the concurrent callers (requests in flight)
Procs == {"p1", "p2"}
Usernames == {"alice", "bob"}
\* plaintext secrets
Passwords == {<<"x">>, <<"y">>}
\* hex digits
Hex == {"a", "b"}
\* the values crypto.randomBytes(8).toString("hex") can give (fixed width)
Sids == {<<h>> : h \in Hex}
\* the values crypto.randomBytes(30).toString("hex") can give (fixed width)
Toks == {<<h>> : h \in Hex}
\* the values uuidv4() can give
Uuids == 1 .. (MaxUsers + Cardinality(Procs))

\* JavaScript's undefined where a string is expected: no string equals it
Undefined == <<"undefined">>
\* JavaScript's false where getUserIdFromSessionId gives no uuid
NoUuid == 0

(***************************************************************************)
(* String functions.                                                       *)
(***************************************************************************)
RECURSIVE Split(_, _)
\* String.prototype.split(sep) for a one-character separator
Split(s, sep) ==
    IF s = <<>> THEN << <<>> >>
    ELSE LET rest == Split(Tail(s), sep) IN
         IF Head(s) = sep THEN << <<>> >> \o rest
         ELSE << <<Head(s)>> \o rest[1] >> \o Tail(rest)

RECURSIVE Join(_, _)
\* the segments of parts with sep between them
Join(parts, sep) ==
    IF Len(parts) = 0 THEN <<>>
    ELSE IF Len(parts) = 1 THEN parts[1]
    ELSE parts[1] \o <<sep>> \o Join(Tail(parts), sep)

\* xs[i], or undefined when the array is shorter (array destructuring, xs[1])
At(xs, i) == IF Len(xs) >= i THEN xs[i] ELSE Undefined

\* !s for a string or undefined
Falsy(s) == s = <<>> \/ s = Undefined

\* `${sid}.${token}`
Composite(sid, token) == sid \o <<".">> \o token

(***************************************************************************)
(* bcrypt.  A hash is a string that starts with the algorithm and cost     *)
(* marker; what follows stands for the salt and digest, which determine    *)
(* the hashed data and nothing else (no two data share a digest).          *)
(***************************************************************************)
BcryptMarker(rounds) == IF rounds = 12 THEN "$2b$12$" ELSE "$2b$10$"

\* bcrypt.hash(data, rounds)
BcryptHash(data, rounds) == <<BcryptMarker(rounds)>> \o data

\* bcrypt.compare(data, hash) for string arguments
BcryptCompare(data, hash) ==
    /\ Len(hash) >= 1
    /\ hash[1] \in {BcryptMarker(12), BcryptMarker(10)}
    /\ Tail(hash) = data

(***************************************************************************)
(* Inputs.                                                                 *)
(***************************************************************************)
Segments == {<<>>} \cup {<<h>> : h \in Hex}
\* lists of at most MaxSegs segments, none empty but possibly the last
SegLists ==
    {l \in UNION {[1 .. n -> Segments] : n \in 1 .. MaxSegs} :
        \A i \in 1 .. (Len(l) - 1) : l[i] # <<>>}
\* the strings handed to verifyToken: "" (missing), "a", "a.", "a.b",
\* "a.b.", "a.b.a", ...
TokenStrings == {Join(l, ".") : l \in SegLists}
UsernameArgs == Usernames \cup {""}
PasswordArgs == Passwords \cup {<<>>}
SidArgs == Sids \cup {<<>>}
\* the Authorization header: absent, a scheme alone, or scheme and token
Headers == {Undefined, <<"B">>} \cup {<<"B", " ">> \o t : t \in TokenStrings}

\* the narrower inputs of the callers that run concurrently
ConcUsernames == {"alice"}
ConcPasswords == {<<"x">>}
ConcTokenStrings == {Composite(s, t) : s \in Sids, t \in Toks}
ConcHeaders == {<<"B", " ">> \o t : t \in ConcTokenStrings}
\* and, where the store can reject, also no header, no token and a token
\* without separator
FaultyHeaders ==
    ConcHeaders \cup {Undefined, <<"B">>} \cup {<<"B", " ">> \o t : t \in Sids}

(***************************************************************************)
(* What a call gives back, and what it did on the way.                     *)
(***************************************************************************)
\* a result: kind says what it is, the other fields carry its value
Ret(kind, err, tok, id, name) ==
    [kind |-> kind, err |-> err, tok |-> tok, id |-> id, name |-> name]

\* throw new Error(...) of a precondition, a rejected store promise, a
\* rejected bcrypt promise
Throw(err) == Ret("throw", err, <<>>, NoUuid, "")
\* Boolean(b)
Bool(b) == Ret(IF b THEN "true" ELSE "false", "", <<>>, NoUuid, "")
\* the string a login returns
TokenRet(t) == Ret("token", "", t, NoUuid, "")
\* the uuid getUserIdFromSessionId returns
UuidRet(u) == Ret("uuid", "", <<>>, u, "")
\* { success: true }, { error: ... } and a return without a value
Success == Ret("success", "", <<>>, NoUuid, "")
Conflict == Ret("conflict", "", <<>>, NoUuid, "")
Void == Ret("void", "", <<>>, NoUuid, "")
\* res.status(401).json(...)
Unauthorized == Ret("401", "", <<>>, NoUuid, "")
\* a context whose token is the secret segment alone
NextCalledSecretOnly(name, id, tok) ==
    Ret("next", "", At(Split(tok, "."), 2), id, name)

\* next() with req.eauth.user set
NextCalled(name, id, tok) == Ret("next", "", tok, id, name)

\* an outcome of a call or of a part of it: the result and the work done
\* ("random", "hash", "compare", "read", "write")
Out(ret, did) == [ret |-> ret, did |-> did]

\* a caller with no call in flight
Idle ==
    [pc |-> "idle", u |-> "", a |-> <<>>, uuid |-> NoUuid, hash |-> <<>>,
     sid |-> <<>>, token |-> <<>>, did |-> {}]

\* no call was completed by the last step
NoResp == [op |-> "none", u |-> "", a |-> <<>>, ret |-> Void, did |-> {}]

(***************************************************************************)
(* The store, as the code queries it.  Where the store is faulty, an       *)
(* access either succeeds or rejects (the store is unreachable, or refuses *)
(* the statement), and the await of it throws.                             *)
(***************************************************************************)
\* the outcomes of an access that rejects, after the work did
StoreRejects(did) == IF storeFaulty THEN {Out(Throw("store"), did)} ELSE {}

\* this.knex("users").where({ username })
UserRows(username) == {r \in users : r.username = username}
\* this.knex("users").where("uuid", confirmedUuid)
UserRowsById(uuid) == {r \in users : r.uuid = uuid}
\* this.knex("sessions").where({session_id: sid})
SessionRows(sid) == {r \in sessions : r.session_id = sid}
\* a delete whose condition is inverted
DeleteSessionsOthers(sid) == {r \in sessions : r.session_id = sid}
\* a delete without its condition
DeleteSessionsAll(sid) == {}

\* a delete that takes every session of the owner of sid
DeleteSessionsOfOwner(sid) ==
    {r \in sessions : \A m \in SessionRows(sid) : r.uuid # m.uuid}

\* this.knex("sessions").where({ session_id: sid }).del()
DeleteSessions(sid) == {r \in sessions : r.session_id # sid}

\* an insert whose query is built and never run
InsertUserNotRun(row) == users

\* this.knex("users").insert({ uuid, username, password })
InsertUser(row) == users \cup {row}

\* an insert that names the row by an id drawn once, not by this login's
InsertSessionStaleId(row) == sessions \cup {[row EXCEPT !.session_id = <<"a">>]}

\* an insert that replaces the sessions of the same owner
InsertSessionReplacing(row) == {r \in sessions : r.uuid # row.uuid} \cup {row}

\* this.knex("sessions").insert({ session_id: sid, token: tokenHash, uuid })
InsertSession(row) == sessions \cup {row}

\* uuidv4(): a value no row and no call in flight holds
FreshUuids ==
    {u \in Uuids : /\ \A r \in users : r.uuid # u
                   /\ \A p \in Procs : call[p].pc = "reg_insert" => call[p].uuid # u}
\* the least of them (uuids are opaque: which one is drawn makes no difference)
FreshUuid == CHOOSE u \in FreshUuids : \A v \in FreshUuids : u <= v

\* the session ids that no session row and no login in flight holds
FreshSids ==
    {s \in Sids : /\ SessionRows(s) = {}
                  /\ \A p \in Procs : call[p].pc = "login_insert" => call[p].sid # s}

\* crypto.randomBytes(8).toString("hex"): 64 random bits.  The code draws
\* them without looking at the table.  Where sidsRepeat is set the draw is
\* any value; elsewhere it is taken not to repeat an id in use (the chance
\* of a repeat among n live ids is about n / 2^64 per login).
DrawnSids == IF sidsRepeat THEN Sids ELSE FreshSids

(***************************************************************************)
(* The methods that make one store access.                                 *)
(***************************************************************************)
\* a comparison whose promise is tested without being awaited
TokenCheckNoAwait(tok, stored) == Out(Bool(TRUE), {"read"})

\* lines 130-134: the stored token against the presented secret segment
TokenCheck(tok, stored) ==
    IF tokenHashing
    THEN IF tok = Undefined
         THEN Out(Throw("bcrypt"), {"read"})
         ELSE Out(Bool(BcryptCompare(tok, stored)), {"read", "compare"})
    ELSE Out(Bool(tok = stored), {"read"})

\* verifyToken(tokenString): every outcome it can have in this state
VerifyTokenOutcomes(tokenString) ==
    IF ~knex THEN {Out(Throw("precondition"), {})}
    ELSE IF Falsy(tokenString) THEN {Out(Throw("precondition"), {})}
    ELSE LET parts == Split(tokenString, ".")
             sid == At(parts, 1)
             tok == At(parts, 2)
         IN  StoreRejects({"read"}) \cup
             IF SessionRows(sid) = {}
             THEN {Out(Bool(FALSE), {"read"})}
             ELSE {TokenCheck(tok, sidMatch.token) : sidMatch \in SessionRows(sid)}

\* a userExists that finds nobody
UserExistsNever(username) ==
    IF ~knex \/ username = "" THEN {Out(Throw("precondition"), {})}
    ELSE {Out(Bool(FALSE), {"read"})}

\* userExists(username)
UserExistsOutcomes(username) ==
    IF ~knex THEN {Out(Throw("precondition"), {})}
    ELSE IF username = "" THEN {Out(Throw("precondition"), {})}
    ELSE StoreRejects({"read"}) \cup {Out(Bool(UserRows(username) # {}), {"read"})}

\* getUserIdFromSessionId(sid)
GetUserIdOutcomes(sid) ==
    IF ~knex THEN {Out(Throw("precondition"), {})}
    ELSE IF Falsy(sid) THEN {Out(Throw("precondition"), {})}
    ELSE StoreRejects({"read"}) \cup
         IF SessionRows(sid) = {}
         THEN {Out(Bool(FALSE), {"read"})}
         ELSE {Out(UuidRet(sidMatch.uuid), {"read"}) : sidMatch \in SessionRows(sid)}

(***************************************************************************)
(* Steps.  A step that completes a call leaves its response in resp; any   *)
(* other step clears resp, so resp is always what the last step answered.  *)
(***************************************************************************)
\* the call of p ends with outcome out
Return(p, op, u, a, out) ==
    /\ call' = [call EXCEPT ![p] = Idle]
    /\ resp' = [op |-> op, u |-> u, a |-> a, ret |-> out.ret, did |-> out.did]

\* the call of p waits for its next store access
Suspend(p, rec) ==
    /\ call' = [call EXCEPT ![p] = rec]
    /\ resp' = NoResp

\* a guard that forgets the password
CredentialsMissingUsernameOnly(username, password) == ~knex \/ username = ""

\* lines 30-31 and 62-63: the guards at the head of register and login
CredentialsMissing(username, password) ==
    ~knex \/ username = "" \/ password = <<>>

\* lines 148-149: the guards at the head of logout
SidMissing(sid) == ~knex \/ Falsy(sid)

\* a register that stores the secret as it came
StoredPasswordPlain(pwdUnhashed) == pwdUnhashed

\* line 34: what register stores for the password
StoredPassword(pwdUnhashed) == BcryptHash(pwdUnhashed, 12)

\* register, lines 30-38: guards, uuid, hash, userExists
Register(p, username, pwdUnhashed) ==
    /\ call[p].pc = "idle"
    /\ IF CredentialsMissing(username, pwdUnhashed)
       THEN Return(p, "register", username, pwdUnhashed, Out(Throw("precondition"), {}))
       ELSE \E o \in UserExistsOutcomes(username) :
              LET did == {"random", "hash"} \cup o.did IN
              IF o.ret.kind = "throw" THEN
                  Return(p, "register", username, pwdUnhashed, Out(o.ret, did))
              ELSE IF o.ret.kind = "true" THEN
                  Return(p, "register", username, pwdUnhashed, Out(Conflict, did))
              ELSE
                  Suspend(p, [Idle EXCEPT !.pc = "reg_insert", !.u = username,
                                          !.a = pwdUnhashed, !.uuid = FreshUuid,
                                          !.hash = StoredPassword(pwdUnhashed),
                                          !.did = did])
    /\ UNCHANGED <<knex, tokenHashing, storeFaulty, sidsRepeat, users, sessions, issued, revoked>>

\* register, lines 40-46: the insert and the return
RegisterInsert(p) ==
    /\ call[p].pc = "reg_insert"
    /\ \/ /\ \E o \in StoreRejects(call[p].did \cup {"write"}) :
                Return(p, "register", call[p].u, call[p].a, o)
          /\ UNCHANGED users
       \/ /\ Cardinality(users) < MaxUsers
          /\ users' = InsertUser([uuid |-> call[p].uuid, username |-> call[p].u,
                                   password |-> call[p].hash])
          /\ Return(p, "register", call[p].u, call[p].a,
                    Out(Success, call[p].did \cup {"write"}))
    /\ UNCHANGED <<knex, tokenHashing, storeFaulty, sidsRepeat, sessions, issued, revoked>>

\* the tokenHashing flag read the wrong way round
TokenRepresentationInverted(token) ==
    IF tokenHashing THEN token ELSE BcryptHash(token, 10)

\* lines 85-91: what login stores for the token
TokenRepresentation(token) ==
    IF tokenHashing THEN BcryptHash(token, 10) ELSE token

\* a password check that accepts every secret
PasswordMatchesAny(password, user) == TRUE

\* line 74: bcrypt.compare(password, user.password)
PasswordMatches(password, user) == BcryptCompare(password, user.password)

\* login, lines 62-91: guards, user lookup, password check, sid and token
Login(p, username, password) ==
    /\ call[p].pc = "idle"
    /\ IF CredentialsMissing(username, password)
       THEN Return(p, "login", username, password, Out(Throw("precondition"), {}))
       ELSE \/ \E o \in StoreRejects({"read"}) :
                 Return(p, "login", username, password, o)
            \/ /\ UserRows(username) = {}
               /\ Return(p, "login", username, password, Out(Bool(FALSE), {"read"}))
            \/ \E user \in UserRows(username) :
                 IF ~PasswordMatches(password, user)
                 THEN Return(p, "login", username, password,
                             Out(Bool(FALSE), {"read", "compare"}))
                 ELSE \E sid \in DrawnSids, token \in Toks :
                        Suspend(p, [Idle EXCEPT
                            !.pc = "login_insert", !.u = username, !.a = password,
                            !.uuid = user.uuid, !.sid = sid, !.token = token,
                            !.hash = TokenRepresentation(token),
                            !.did = {"read", "compare", "random"} \cup
                                    (IF tokenHashing THEN {"hash"} ELSE {})])
    /\ UNCHANGED <<knex, tokenHashing, storeFaulty, sidsRepeat, users, sessions, issued, revoked>>

\* login, lines 94-100: the session insert and the return of the composite
LoginInsert(p) ==
    /\ call[p].pc = "login_insert"
    /\ \/ /\ \E o \in StoreRejects(call[p].did \cup {"write"}) :
                Return(p, "login", call[p].u, call[p].a, o)
          /\ UNCHANGED <<sessions, issued, revoked>>
       \/ /\ sessions' = InsertSession([session_id |-> call[p].sid,
                                         token |-> call[p].hash,
                                         uuid |-> call[p].uuid])
          /\ issued' = issued \cup {Composite(call[p].sid, call[p].token)}
          /\ revoked' = revoked \ {call[p].sid}
          /\ Return(p, "login", call[p].u, call[p].a,
                    Out(TokenRet(Composite(call[p].sid, call[p].token)),
                        call[p].did \cup {"write"}))
    /\ UNCHANGED <<knex, tokenHashing, storeFaulty, sidsRepeat, users>>

\* verifyToken, lines 114-135
VerifyToken(p, tokenString) ==
    /\ call[p].pc = "idle"
    /\ \E o \in VerifyTokenOutcomes(tokenString) :
         Return(p, "verifyToken", "", tokenString, o)
    /\ UNCHANGED <<knex, tokenHashing, storeFaulty, sidsRepeat, users, sessions, issued, revoked>>

\* logout, lines 147-152
Logout(p, sid) ==
    /\ call[p].pc = "idle"
    /\ IF SidMissing(sid)
       THEN /\ Return(p, "logout", "", sid, Out(Throw("precondition"), {}))
            /\ UNCHANGED <<sessions, issued, revoked>>
       ELSE \/ /\ \E o \in StoreRejects({"write"}) : Return(p, "logout", "", sid, o)
               /\ UNCHANGED <<sessions, issued, revoked>>
            \/ /\ sessions' = DeleteSessions(sid)
               /\ issued' = {t \in issued : At(Split(t, "."), 1) # sid}
               /\ revoked' = revoked \cup {sid}
               /\ Return(p, "logout", "", sid, Out(Void, {"write"}))
    /\ UNCHANGED <<knex, tokenHashing, storeFaulty, sidsRepeat, users>>

\* userExists, lines 169-178
UserExists(p, username) ==
    /\ call[p].pc = "idle"
    /\ \E o \in UserExistsOutcomes(username) :
         Return(p, "userExists", username, <<>>, o)
    /\ UNCHANGED <<knex, tokenHashing, storeFaulty, sidsRepeat, users, sessions, issued, revoked>>

\* getUserIdFromSessionId, lines 191-204
GetUserIdFromSessionId(p, sid) ==
    /\ call[p].pc = "idle"
    /\ \E o \in GetUserIdOutcomes(sid) :
         Return(p, "getUserIdFromSessionId", "", sid, o)
    /\ UNCHANGED <<knex, tokenHashing, storeFaulty, sidsRepeat, users, sessions, issued, revoked>>

\* line 218: req.headers.authorization?.split(" ")[1]
BearerToken(header) ==
    IF header = Undefined THEN Undefined ELSE At(Split(header, " "), 2)

\* a verification whose promise is tested without being awaited
VerifiedNoAwait(o) == TRUE

\* line 220: await this.verifyToken(token) gave true (false, or a throw
\* that the catch of line 246 takes, answers 401)
Verified(o) == o.ret.kind = "true"

\* express_middleware, lines 216-222: the token and its verification
MiddlewareVerify(p, header) ==
    /\ call[p].pc = "idle"
    /\ LET token == BearerToken(header) IN
       IF Falsy(token)
       THEN Return(p, "express_middleware", "", header, Out(Unauthorized, {}))
       ELSE \E o \in VerifyTokenOutcomes(token) :
              IF Verified(o)
              THEN Suspend(p, [Idle EXCEPT !.pc = "mw_owner", !.a = header,
                                           !.token = token, !.did = o.did])
              ELSE Return(p, "express_middleware", "", header,
                          Out(Unauthorized, o.did))
    /\ UNCHANGED <<knex, tokenHashing, storeFaulty, sidsRepeat, users, sessions, issued, revoked>>

\* express_middleware, lines 224-226: the owner of the session
MiddlewareOwner(p) ==
    /\ call[p].pc = "mw_owner"
    /\ LET auth_sid == At(Split(call[p].token, "."), 1) IN
       \E o \in GetUserIdOutcomes(auth_sid) :
         IF o.ret.kind = "throw"
         THEN Return(p, "express_middleware", "", call[p].a,
                     Out(Unauthorized, call[p].did \cup o.did))
         ELSE Suspend(p, [call[p] EXCEPT
                  !.pc = "mw_user",
                  !.uuid = IF o.ret.kind = "uuid" THEN o.ret.id ELSE NoUuid])
    /\ UNCHANGED <<knex, tokenHashing, storeFaulty, sidsRepeat, users, sessions, issued, revoked>>

\* express_middleware, lines 229-248: the user row, req.eauth and next()
MiddlewareUser(p) ==
    /\ call[p].pc = "mw_user"
    /\ \/ /\ storeFaulty
          /\ Return(p, "express_middleware", "", call[p].a,
                    Out(Unauthorized, call[p].did))
       \/ /\ UserRowsById(call[p].uuid) = {}
          /\ Return(p, "express_middleware", "", call[p].a,
                    Out(Unauthorized, call[p].did))
       \/ \E user \in UserRowsById(call[p].uuid) :
            Return(p, "express_middleware", "", call[p].a,
                   Out(NextCalled(user.username, call[p].uuid, call[p].token),
                       call[p].did))
    /\ UNCHANGED <<knex, tokenHashing, storeFaulty, sidsRepeat, users, sessions, issued, revoked>>

\* new Authentication(knex, tokenHashing) over empty tables
Construct ==
    /\ knex \in BOOLEAN
    /\ tokenHashing \in BOOLEAN
    /\ users = {}
    /\ sessions = {}
    /\ call = [p \in Procs |-> Idle]
    /\ resp = NoResp
    /\ issued = {}
    /\ revoked = {}

\* a store that answers every access, session ids that do not repeat
Init == Construct /\ storeFaulty = FALSE /\ sidsRepeat = FALSE

\* a store whose accesses can reject
InitFaulty == Construct /\ storeFaulty = TRUE /\ sidsRepeat = FALSE

\* session ids drawn without regard to the ids in use
InitDraw == Construct /\ storeFaulty = FALSE /\ sidsRepeat = TRUE

\* the steps of the callers P on the inputs US, PS, TS, SS, HS
NextOf(P, US, PS, TS, SS, HS) ==
    \/ \E p \in P, u \in US, pw \in PS : Register(p, u, pw)
    \/ \E p \in P : RegisterInsert(p)
    \/ \E p \in P, u \in US, pw \in PS : Login(p, u, pw)
    \/ \E p \in P : LoginInsert(p)
    \/ \E p \in P, t \in TS : VerifyToken(p, t)
    \/ \E p \in P, sid \in SS : Logout(p, sid)
    \/ \E p \in P, u \in US : UserExists(p, u)
    \/ \E p \in P, sid \in SS : GetUserIdFromSessionId(p, sid)
    \/ \E p \in P, h \in HS : MiddlewareVerify(p, h)
    \/ \E p \in P : MiddlewareOwner(p)
    \/ \E p \in P : MiddlewareUser(p)

\* one caller, one call after the other, on every input
Next == NextOf({"p1"}, UsernameArgs, PasswordArgs, TokenStrings, SidArgs, Headers)

Spec == Init /\ [][Next]_vars

\* two callers whose calls interleave at their store accesses
NextConc ==
    NextOf(Procs, ConcUsernames, ConcPasswords, ConcTokenStrings, Sids, ConcHeaders)

SpecConc == Init /\ [][NextConc]_vars

\* two callers and a store whose accesses can reject
NextFaulty ==
    NextOf(Procs, ConcUsernames, ConcPasswords, ConcTokenStrings, Sids, FaultyHeaders)

SpecFaulty == InitFaulty /\ [][NextFaulty]_vars

\* one caller, any draw of the session id
NextDraw == NextOf({"p1"}, Usernames, Passwords, ConcTokenStrings, Sids, ConcHeaders)

SpecDraw == InitDraw /\ [][NextDraw]_vars

(***************************************************************************)
(* Properties.                                                             *)
(***************************************************************************)
\* the session-id segment and the secret segment of a token string
SidOf(t) == At(Split(t, "."), 1)
SecretOf(t) == At(Split(t, "."), 2)
\* the last step completed a call of op
Answered(op) == resp.op = op

\* C1: a composite token that login returned, and whose session was not
\* logged out since, is answered true by verifyToken, in both
\* token-hashing modes.
C1_LoginThenVerify ==
    (Answered("verifyToken") /\ resp.a \in issued) => resp.ret = Bool(TRUE)

C1_Witness ==
    /\ Answered("verifyToken")
    /\ resp.a \in issued
    /\ resp.ret = Bool(TRUE)
    /\ tokenHashing

\* C2: once logout(sid) has completed, and until a login creates a session
\* with that id again, verifyToken answers false to every token string
\* whose session-id segment is sid.
C2_LogoutThenVerify ==
    (Answered("verifyToken") /\ SidOf(resp.a) \in revoked) => resp.ret = Bool(FALSE)

C2_Witness ==
    /\ Answered("verifyToken")
    /\ SidOf(resp.a) \in revoked
    /\ SecretOf(resp.a) \in Toks
    /\ resp.ret = Bool(FALSE)
    /\ issued # {}

\* a step in which a call was made and answered at once
AnsweredAtOnce(op) == call' = call /\ resp'.op = op
\* a step in which p made a call that now waits at pc
Waits(p, pc) == call[p].pc = "idle" /\ call'[p].pc = pc

C4_OneRowPerUsername ==
    \A u \in Usernames : Cardinality(UserRows(u)) <= 1

\* C5: for a live session with id sid and secret tok, verifyToken answers
\* false to sid.tok' for every secret segment tok' other than tok, in both
\* token-hashing modes.
C5_TamperedSecretRejected ==
    \A t \in issued :
        ( /\ Answered("verifyToken")
          /\ Len(Split(resp.a, ".")) = 2
          /\ SidOf(resp.a) = SidOf(t)
          /\ SecretOf(resp.a) # SecretOf(t) )
        => resp.ret = Bool(FALSE)

C5_Witness ==
    /\ Answered("verifyToken")
    /\ resp.ret = Bool(FALSE)
    /\ \E t \in issued : /\ SidOf(resp.a) = SidOf(t)
                         /\ SecretOf(resp.a) \in Toks \ {SecretOf(t)}
                         /\ Len(Split(resp.a, ".")) = 2
    /\ \E t \in issued : SecretOf(t) = SecretOf(resp.a)

\* C6: verifyToken answers false to a non-empty token string that has no
\* "." or more than one ".", also when the string begins with the id and
\* secret of a live session, and leaves the tables as they were (on an
\* instance with its store handle set).
C6_MalformedRejected ==
    [][ ( /\ AnsweredAtOnce("verifyToken")
          /\ knex
          /\ resp'.a # <<>>
          /\ Len(Split(resp'.a, ".")) # 2 )
        => /\ resp'.ret = Bool(FALSE)
           /\ users' = users
           /\ sessions' = sessions ]_vars

\* C7: login with a wrong secret for a registered username and login with
\* a secret for an unregistered username both answer false, throw nothing,
\* start no session and leave the tables as they were.
C7_LoginFailuresAlike ==
    [][ /\ ( /\ AnsweredAtOnce("login")
             /\ knex /\ resp'.u # "" /\ resp'.a # <<>>
             /\ \A r \in UserRows(resp'.u) : ~BcryptCompare(resp'.a, r.password) )
           => /\ resp'.ret = Bool(FALSE)
              /\ users' = users
              /\ sessions' = sessions
        /\ \A p \in Procs :
             Waits(p, "login_insert")
                => \E r \in UserRows(call'[p].u) :
                      BcryptCompare(call'[p].a, r.password) ]_vars

C7_Witness ==
    /\ Answered("login")
    /\ resp.ret = Bool(FALSE)
    /\ UserRows(resp.u) # {}
    /\ resp.a \in Passwords
    /\ \E u \in Usernames : UserRows(u) = {}
    /\ sessions # {}

\* C8: logout(sid) for a sid without a session row completes without error
\* and leaves both tables as they were; every completed logout(sid) leaves
\* no row with that id, so a second logout(sid) changes nothing.
C8_LogoutIdempotent ==
    [][ ( /\ AnsweredAtOnce("logout")
          /\ knex /\ resp'.a # <<>> )
        => /\ resp'.ret = Void
           /\ users' = users
           /\ {r \in sessions' : r.session_id = resp'.a} = {}
           /\ (SessionRows(resp'.a) = {} => sessions' = sessions) ]_vars

C8_Witness ==
    /\ Answered("logout")
    /\ resp.ret = Void
    /\ resp.a \in revoked
    /\ sessions # {}
    /\ users # {}

\* C9: express_middleware goes past the verification only when verifyToken
\* answered true for the presented token, calls next() only from its last
\* step and with the owning identity found, and answers 401 in every
\* other run; no run throws, and none answers both.
C9_MiddlewareFailsClosed ==
    [][ /\ \A p \in Procs :
             Waits(p, "mw_owner")
                => /\ call'[p].token = BearerToken(call'[p].a)
                   /\ Bool(TRUE) \in {o.ret : o \in VerifyTokenOutcomes(call'[p].token)}
        /\ resp'.op = "express_middleware"
             => \/ resp'.ret = Unauthorized
                \/ \E p \in Procs, r \in users :
                     /\ call[p].pc = "mw_user"
                     /\ call'[p].pc = "idle"
                     /\ r.uuid = call[p].uuid
                     /\ resp'.ret = NextCalled(r.username, r.uuid, call[p].token)
                     /\ resp'.a = call[p].a ]_vars

\* a session was logged out between the verification and the owner lookup
C9_Witness ==
    \E p \in Procs :
        /\ call[p].pc = "mw_user"
        /\ call[p].uuid = NoUuid
        /\ users # {}

\* the operations that raise precondition errors
GuardedOps ==
    {"register", "login", "verifyToken", "logout", "userExists",
     "getUserIdFromSessionId"}
\* the call that r answers lacked a required argument
ArgumentMissing(r) ==
    IF r.op \in {"register", "login"} THEN r.u = "" \/ r.a = <<>>
    ELSE IF r.op = "userExists" THEN r.u = ""
    ELSE r.a = <<>>

\* C10: each of the six operations, called with a required argument
\* missing or empty, or on an instance without store handle, throws a
\* precondition error at once, before any store access, hashing or random
\* draw, and leaves the tables as they were; no such call reaches a later
\* step.
C10_PreconditionsFirst ==
    [][ /\ ( /\ resp'.op \in GuardedOps
             /\ call' = call
             /\ (~knex \/ ArgumentMissing(resp')) )
           => /\ resp'.ret = Throw("precondition")
              /\ resp'.did = {}
              /\ users' = users
              /\ sessions' = sessions
        /\ \A p \in Procs :
             (Waits(p, "reg_insert") \/ Waits(p, "login_insert"))
                => knex /\ call'[p].u # "" /\ call'[p].a # <<>> ]_vars

C10_Witness ==
    /\ Answered("register")
    /\ resp.ret = Throw("precondition")
    /\ resp.u \in Usernames
    /\ resp.a = <<>>
    /\ knex
    /\ users # {}

\* C11: a register call that answers success has made exactly one insert
\* into the users table, the row of its username, and has left every
\* earlier row in place; a register call that answers the conflict result
\* or a precondition error has changed no table; no step of a register
\* call changes the sessions table.
C11_RegisterEffects ==
    [][ /\ resp'.op = "register"
           => /\ sessions' = sessions
              /\ resp'.ret = Success
                   => /\ users \subseteq users'
                      /\ Cardinality(users') = Cardinality(users) + 1
                      /\ \A r \in users' \ users : r.username = resp'.u
              /\ resp'.ret \in {Conflict, Throw("precondition")}
                   => users' = users
        /\ \A p \in Procs :
             Waits(p, "reg_insert") => users' = users /\ sessions' = sessions ]_vars

C11_Witness ==
    /\ Answered("register")
    /\ resp.ret = Success
    /\ Cardinality(users) = 2
    /\ sessions # {}

\* verifyToken(t) would answer true in this state
LiveVerifies(t) == \A o \in VerifyTokenOutcomes(t) : o.ret = Bool(TRUE)

\* C12: successful logins for one identity, one after the other or
\* interleaved, each add one session row of their own, owned by that
\* identity and named by the id of the returned token, and keep every
\* earlier row; the returned token verifies true from then on; a logout of
\* one session leaves verifyToken true for the tokens of the others.
C12_LoginsIndependent ==
    [][ /\ \A p \in Procs :
             ( /\ call[p].pc = "login_insert"
               /\ call'[p].pc = "idle"
               /\ resp'.ret.kind = "token" )
             => /\ sessions \subseteq sessions'
                /\ Cardinality(sessions') = Cardinality(sessions) + 1
                /\ \A r \in sessions' \ sessions :
                     /\ r.session_id = SidOf(resp'.ret.tok)
                     /\ \E u \in UserRows(resp'.u) : u.uuid = r.uuid
                /\ \A t \in TokenStrings : t = resp'.ret.tok => LiveVerifies(t)'
        /\ AnsweredAtOnce("logout")
             => \A t \in issued : SidOf(t) # resp'.a => LiveVerifies(t)'
        /\ (resp'.op = "verifyToken" /\ resp'.a \in issued)
             => resp'.ret = Bool(TRUE) ]_vars

\* a login completes while another login for the same identity is between
\* its lookup and its insert
C12_Witness ==
    /\ Answered("login")
    /\ resp.ret.kind = "token"
    /\ sessions # {}
    /\ \E p \in Procs : /\ call[p].pc = "login_insert"
                         /\ call[p].u = resp.u
                         /\ \A r \in sessions : r.uuid = call[p].uuid

\* C13: the stored password of every users row differs from every
\* plaintext secret, so from the one it was registered with; with
\* tokenHashing on, the stored token of every session row differs from the
\* secret segment of the composite token that login returned for it.
C13_NoPlaintextStored ==
    /\ \A r \in users : r.password \notin Passwords
    /\ tokenHashing
         => \A r \in sessions, t \in issued :
               SidOf(t) = r.session_id => r.token # SecretOf(t)

C13_Witness ==
    /\ tokenHashing
    /\ Cardinality(users) = 2
    /\ Cardinality(sessions) = 2
    /\ \A r \in sessions : \E t \in issued : SidOf(t) = r.session_id

\* the token that the last step's login returned, if any, verifies true
ReturnedTokenVerifies ==
    (resp.op = "login" /\ resp.ret.kind = "token") => LiveVerifies(resp.ret.tok)

\* C14: the token that a login returns verifies true from that step on,
\* and a token that login returned and that verifies true keeps verifying
\* true across every step that is not a logout of its session id: across
\* register, login, verifyToken, userExists, getUserIdFromSessionId and
\* middleware calls and across logout of any other id.
C14_ValidUntilRevoked ==
    [][ /\ ReturnedTokenVerifies'
        /\ \A t \in issued :
             ( /\ LiveVerifies(t)
               /\ ~(resp'.op = "logout" /\ resp'.a = SidOf(t)) )
             => LiveVerifies(t)' ]_vars

\* a logout of another session id has just completed
C14_Witness ==
    /\ Answered("logout")
    /\ resp.ret = Void
    /\ resp.a \in revoked
    /\ \E t \in issued : /\ LiveVerifies(t)
                          /\ \E r \in sessions, u \in users :
                                /\ r.session_id = SidOf(t)
                                /\ u.uuid = r.uuid
    /\ SessionRows(resp.a) = {}

\* C15: the sessions table holds at most one row per session_id, whatever
\* ids the logins draw.
C15_OneRowPerSessionId ==
    \A s \in Sids : Cardinality(SessionRows(s)) <= 1

\* C15, amended: two rows with one session_id come to be only by the
\* insert of a login whose drawn id a session row already held; no other
\* step, and no login whose drawn id is not in the table, makes one.
C15_DuplicateOnlyByRepeatedDraw ==
    [][ \A r1 \in sessions', r2 \in sessions' :
          ( /\ r1 # r2
            /\ r1.session_id = r2.session_id
            /\ ~(r1 \in sessions /\ r2 \in sessions) )
          => \E p \in Procs :
                /\ call[p].pc = "login_insert"
                /\ call'[p].pc = "idle"
                /\ call[p].sid = r1.session_id
                /\ SessionRows(call[p].sid) # {} ]_vars

\* a login has inserted a row under an id that another row holds
C15_Witness ==
    /\ Answered("login")
    /\ resp.ret.kind = "token"
    /\ Cardinality(SessionRows(SidOf(resp.ret.tok))) = 2

\* what the middleware reads is what the tables hold at its lookups
MiddlewareReads ==
    /\ \A p \in Procs :
         (call[p].pc = "mw_owner" /\ call'[p].pc = "mw_user")
         => IF SessionRows(SidOf(call[p].token)) = {}
            THEN call'[p].uuid = NoUuid
            ELSE \E r \in SessionRows(SidOf(call[p].token)) : call'[p].uuid = r.uuid
    /\ \A p \in Procs :
         (call[p].pc = "mw_user" /\ call'[p].pc = "idle" /\ resp'.ret.kind = "next")
         => /\ resp'.ret.tok = BearerToken(resp'.a)
            /\ resp'.ret.id = call[p].uuid
            /\ resp'.ret.id # NoUuid
            /\ \E u \in users : /\ u.uuid = resp'.ret.id
                                 /\ u.username = resp'.ret.name

\* C16: when express_middleware calls next(), the token of the attached
\* context is the token of the Authorization header, its id is the uuid of
\* the session row named by the token's session-id segment, and its
\* username is the username of the users row with that uuid (requests
\* served one at a time).
C16_MiddlewareContext ==
    [][ /\ MiddlewareReads
        /\ resp'.ret.kind = "next"
             => /\ \E r \in SessionRows(SidOf(resp'.ret.tok)) : r.uuid = resp'.ret.id
                /\ \A r \in SessionRows(SidOf(resp'.ret.tok)) : r.uuid = resp'.ret.id
                /\ \A u \in UserRowsById(resp'.ret.id) : u.username = resp'.ret.name ]_vars

\* next() for the second user's session while the first user's is live
C16_Witness ==
    /\ Answered("express_middleware")
    /\ resp.ret.kind = "next"
    /\ Cardinality(users) = 2
    /\ Cardinality(sessions) = 2
    /\ \E r \in sessions : r.uuid # resp.ret.id

\* C17: verifyToken answers true only to a token string that is exactly a
\* composite token that a login returned and whose session was not logged
\* out since, in both token-hashing modes.
C17_VerifySound ==
    (Answered("verifyToken") /\ resp.ret = Bool(TRUE)) => resp.a \in issued

\* C18: the uuid of every session row is the uuid of a users row; a
\* session row comes to be only by the insert of a login that returns a
\* token, and is owned by a users row of that login's username whose
\* stored hash the supplied password matched; a login that answers false
\* leaves the sessions table as it was.
C18_SessionsOwned ==
    [][ /\ \A s \in sessions' : \E u \in users' : u.uuid = s.uuid
        /\ \A p \in Procs :
             (call[p].pc = "login_insert" /\ call'[p].pc = "idle")
             => \A r \in sessions' \ sessions :
                   \E u \in users : /\ u.uuid = r.uuid
                                    /\ u.username = call[p].u
                                    /\ BcryptCompare(call[p].a, u.password)
        /\ ~(sessions' \subseteq sessions)
             => /\ resp'.op = "login"
                /\ resp'.ret.kind = "token"
                /\ \E p \in Procs : call[p].pc = "login_insert" /\ call'[p].pc = "idle"
        /\ (resp'.op = "login" /\ resp'.ret = Bool(FALSE))
             => sessions' = sessions ]_vars

\* a login has returned a token while another user, with another
\* password, has a session too
C18_Witness ==
    /\ Answered("login")
    /\ resp.ret.kind = "token"
    /\ Cardinality(sessions) = 2
    /\ \E r1 \in sessions, r2 \in sessions : r1.uuid # r2.uuid
    /\ \E u \in users : ~BcryptCompare(resp.a, u.password)

\* the operations that only read
ReadOps == {"verifyToken", "userExists", "getUserIdFromSessionId"}

\* C19: verifyToken, userExists and getUserIdFromSessionId, called directly
\* or from the middleware, leave both tables as they were on every
\* outcome; logout(sid) leaves the users table as it was and removes no
\* session row but rows whose session_id is sid; no step of any operation
\* removes or rewrites a users row.
C19_Frame ==
    [][ /\ resp'.op \in ReadOps \cup {"express_middleware"}
             => users' = users /\ sessions' = sessions
        /\ \A p \in Procs :
             (call'[p].pc \in {"mw_owner", "mw_user"} /\ call'[p] # call[p])
             => users' = users /\ sessions' = sessions
        /\ resp'.op = "logout"
             => /\ users' = users
                /\ sessions' \subseteq sessions
                /\ \A r \in sessions \ sessions' : r.session_id = resp'.a
        /\ users \subseteq users' ]_vars

\* a logout has removed its session and left another user's in place
C19_Witness ==
    /\ Answered("logout")
    /\ resp.ret = Void
    /\ resp.a \in revoked
    /\ Cardinality(users) = 2
    /\ \E r \in sessions, t \in issued :
         /\ r.session_id = SidOf(t)
         /\ r.session_id # resp.a
         /\ LiveVerifies(t)

====
